---- MODULE Spec2Model ----
(***************************************************************************)
(* The panic handler (17_kernel_symbols/kernel/src/panic_wait.rs), the     *)
(* normal console print path (09_privilege_level/src/print.rs) and the     *)
(* debug symbol lookup (17_kernel_symbols/kernel/src/symbols.rs) of the    *)
(* kernel, as one state machine of the single core that runs kernel code.  *)
(***************************************************************************)
EXTENDS Integers, Sequences, FiniteSets, TLC

\* Bounds of the symbol tables and of the addresses that are looked up.
MaxAddr == 3
MaxSize == 2
MaxSyms == 2

\* Rust's Option<T>: None, Some(x).
None == <<>>
Some(x) == <<x>>

VARIABLES
    test_build,             \* cfg(feature = "test_build") of this build
    panic_exit_overridden,  \* a test links its own _panic_exit over the weak one
    irq_masked,             \* asynchronous exceptions masked on the core
    PANIC_IN_PROGRESS,      \* the static AtomicBool of panic_prevent_reenter
    frames,                 \* panic invocations on the stack, innermost last
    console_lock,           \* the lock of the normal console()
    panic_out,              \* what panic_console_out() has taken, in order
    cpu,                    \* "running", "wait_forever" or "qemu_exit_failure"
    uptime_reads,           \* number of time_manager().uptime() calls so far
    write_attempts,         \* number of writes tried on panic_console_out()
    symbol_section,         \* the records found at __kernel_symbols_start
    NUM_KERNEL_SYMBOLS,     \* the record count word
    lookup_addr,            \* the address of the last lookup_symbol call
    lookup_result,          \* what that call returned
    lookup_reads,           \* the section indices that call read
    boot_pc,                \* the statement of the test's kernel_init to run next
    driver_index,           \* the position of the driver loop's iterator
    boot_log                \* what kernel_init has done so far, in order

panic_vars == <<test_build, panic_exit_overridden, irq_masked, PANIC_IN_PROGRESS,
                frames, console_lock, panic_out, cpu, uptime_reads, write_attempts>>
symbol_vars == <<symbol_section, NUM_KERNEL_SYMBOLS>>
lookup_vars == <<lookup_addr, lookup_result, lookup_reads>>
boot_vars == <<boot_pc, driver_index, boot_log>>
vars == <<panic_vars, symbol_vars, lookup_vars, boot_vars>>

----------------------------------------------------------------------------
\* Debug symbols (symbols.rs)

\* A symbol's name; the names of a table are pairwise distinct.
SymbolName(i) == <<"symbol", i>>

\* The address range of a record is start .. start + size (end excluded).
contains(sym, addr) == sym.start <= addr /\ addr < sym.start + sym.size

\* Tables of n records.
Tables(n) ==
    { [i \in 1..n |-> [start |-> s[i], size |-> z[i], name |-> SymbolName(i)]] :
        s \in [1..n -> 0..MaxAddr], z \in [1..n -> 0..MaxSize] }

\* The addresses that are looked up: every start, every end, and one more.
Addresses == 0..(MaxAddr + MaxSize)

\* The slice taken over the whole section, whatever the count word holds.
kernel_symbols_slice_whole_section == symbol_section

\* The slice taken one record short.
kernel_symbols_slice_one_short == SubSeq(symbol_section, 1, NUM_KERNEL_SYMBOLS - 1)

\* slice::from_raw_parts(ptr, num), num read from the count word.
kernel_symbols_slice == SubSeq(symbol_section, 1, NUM_KERNEL_SYMBOLS)

\* The loop without its early return: the last record that contains addr wins.
RECURSIVE lookup_last_match(_, _, _)
lookup_last_match(slice, i, addr) ==
    IF i > Len(slice) THEN [result |-> None, reads |-> 1..Len(slice)]
    ELSE LET rest == lookup_last_match(slice, i + 1, addr)
         IN  IF rest.result = None /\ contains(slice[i], addr)
             THEN [result |-> Some(slice[i].name), reads |-> 1..Len(slice)]
             ELSE rest

\* The for loop of lookup_symbol from record i on: the first record that
\* contains addr ends it. reads are the records the loop has looked at.
RECURSIVE lookup_from(_, _, _)
lookup_from(slice, i, addr) ==
    IF i > Len(slice) THEN [result |-> None, reads |-> 1..Len(slice)]
    ELSE IF contains(slice[i], addr)
         THEN [result |-> Some(slice[i].name), reads |-> 1..i]
         ELSE lookup_from(slice, i + 1, addr)

\* lookup_symbol with the loop begun at the second record.
lookup_symbol_skips_first(addr) == lookup_from(kernel_symbols_slice, 2, addr)

lookup_symbol(addr) == lookup_from(kernel_symbols_slice, 1, addr)

----------------------------------------------------------------------------
\* Panic handler (panic_wait.rs)

InPanic == frames # <<>>
Running == cpu = "running"
Top == frames[Len(frames)]
SetTopPc(pc) == [frames EXCEPT ![Len(frames)].pc = pc]

\* core::panic::PanicInfo: an optional location and an optional message.
Locations == {None, Some([file |-> "foo.rs", line |-> 42, column |-> 7])}
Messages == {None, Some("index out of bounds")}

\* core::time::Duration values the uptime source returns.
Uptimes == {[secs |-> 3, nanos |-> 250000000], [secs |-> 0, nanos |-> 999]}

as_secs(d) == d.secs

\* The milliseconds of the second, where the microseconds are asked for.
subsec_millis(d) == d.nanos \div 1000000
subsec_micros(d) == d.nanos \div 1000

\* An invocation of panic(info) that begins at the test of the flag.
PanicFrame_skips_mask(location, message) ==
    [pc |-> "load", location |-> location, message |-> message, timestamp |-> None]

\* A new invocation of panic(info), about to run its first statement.
PanicFrame(location, message) ==
    [pc |-> "mask", location |-> location, message |-> message, timestamp |-> None]

\* The panic of Result::unwrap() on an Err, raised at file:line.
UnwrapPanic(file, line) ==
    PanicFrame(Some([file |-> file, line |-> line, column |-> 5]),
               Some("called Result::unwrap() on an Err value"))

\* _panic_exit with the two cfg attributes exchanged.
_panic_exit_cfg_swapped == IF test_build THEN "wait_forever" ELSE "qemu_exit_failure"

\* The panic of an interrupt handler.
IrqPanicFrame == PanicFrame(None, Some("unhandled interrupt"))

\* The weak default of _panic_exit: where the core ends up.
_panic_exit == IF test_build THEN "qemu_exit_failure" ELSE "wait_forever"

\* The _panic_exit of the panic_wait_forever module of the console tests.
panic_wait_forever == "wait_forever"

\* An exit function that returns to its caller.
linked_panic_exit_returns == "running"

\* The weak default bound although a strong definition is linked.
linked_panic_exit_weak_wins == _panic_exit

\* The _panic_exit the linker binds: a strong definition wins over the weak.
linked_panic_exit == IF panic_exit_overridden THEN panic_wait_forever ELSE _panic_exit

\* panic_prevent_reenter without the test of the flag.
panic_prevent_reenter_unguarded(in_progress) == "store"

\* panic_prevent_reenter after the load: store and return, or exit.
panic_prevent_reenter(in_progress) == IF ~in_progress THEN "store" ELSE "reenter_exit"

\* The arguments with an empty file name where the location is missing.
panic_args_empty_sentinel(f) ==
    LET loc == IF f.location # None
               THEN f.location[1]
               ELSE [file |-> "", line |-> 0, column |-> 0]
    IN  [secs |-> as_secs(f.timestamp[1]),
         micros |-> subsec_micros(f.timestamp[1]),
         file |-> loc.file, line |-> loc.line, column |-> loc.column,
         message |-> IF f.message # None THEN f.message[1] ELSE ""]

\* The arguments of panic_println! in panic().
panic_args(f) ==
    LET loc == IF f.location # None
               THEN f.location[1]
               ELSE [file |-> "???", line |-> 0, column |-> 0]
    IN  [secs |-> as_secs(f.timestamp[1]),
         micros |-> subsec_micros(f.timestamp[1]),
         file |-> loc.file, line |-> loc.line, column |-> loc.column,
         message |-> IF f.message # None THEN f.message[1] ELSE ""]

----------------------------------------------------------------------------
\* Formatting (core::fmt as panic_println! uses it). A text is a sequence of
\* characters.

\* The characters of the strings that occur in a PanicInfo.
Chars(s) ==
    IF s = "" THEN <<>> ELSE
    CASE s = "foo.rs" ->
      <<"f", "o", "o", ".", "r", "s">>
      [] s = "???" ->
      <<"?", "?", "?">>
      [] s = "index out of bounds" ->
      <<"i", "n", "d", "e", "x", " ", "o", "u", "t", " ", "o", "f", " ", "b",
            "o", "u", "n", "d", "s">>
      [] s = "unhandled interrupt" ->
      <<"u", "n", "h", "a", "n", "d", "l", "e", "d", " ", "i", "n", "t", "e",
            "r", "r", "u", "p", "t">>
      [] s = "print.rs" ->
      <<"p", "r", "i", "n", "t", ".", "r", "s">>
      [] s = "panic_wait.rs" ->
      <<"p", "a", "n", "i", "c", "_", "w", "a", "i", "t", ".", "r", "s">>
      [] s = "called Result::unwrap() on an Err value" ->
      <<"c", "a", "l", "l", "e", "d", " ", "R", "e", "s", "u", "l", "t", ":",
            ":", "u", "n", "w", "r", "a", "p", "(", ")", " ", "o", "n", " ",
            "a", "n", " ", "E", "r", "r", " ", "v", "a", "l", "u", "e">>

\* {} of an unsigned integer: its decimal digits, without sign or padding.
DigitChar(d) == <<"0", "1", "2", "3", "4", "5", "6", "7", "8", "9">>[d + 1]
RECURSIVE Decimal(_)
Decimal(n) == IF n < 10 THEN <<DigitChar(n)>>
              ELSE Decimal(n \div 10) \o <<DigitChar(n % 10)>>

\* A minimum width: fill characters go in front while the text is shorter.
RECURSIVE PadLeft(_, _, _)
PadLeft(t, width, fill) ==
    IF Len(t) >= width THEN t ELSE PadLeft(<<fill>> \o t, width, fill)

\* {:>3}: right-aligned in at least 3 columns, filled with spaces.
FmtRight3(n) == PadLeft(Decimal(n), 3, " ")

\* {:06}: at least 6 columns, filled with zeros.
FmtZero6(n) == PadLeft(Decimal(n), 6, "0")

\* The format string of panic(), expanded over its arguments, with the
\* newline that format_args_nl! adds.
panic_text(args) ==
    <<"[", " ", " ">> \o FmtRight3(args.secs) \o <<".">> \o FmtZero6(args.micros)
    \o <<"]", " ", "K", "e", "r", "n", "e", "l", " ", "p", "a", "n", "i", "c", "!", "\n", "\n">>
    \o <<"P", "a", "n", "i", "c", " ", "l", "o", "c", "a", "t", "i", "o", "n", ":", "\n">>
    \o <<" ", " ", " ", " ", " ", " ", "F", "i", "l", "e", " ", "'">> \o Chars(args.file)
    \o <<"'", ",", " ", "l", "i", "n", "e", " ">> \o Decimal(args.line)
    \o <<",", " ", "c", "o", "l", "u", "m", "n", " ">> \o Decimal(args.column)
    \o <<"\n", "\n">> \o Chars(args.message) \o <<"\n">>

\* What a write_fmt has put on the channel when it returns: all of the text
\* (Ok), or, when it returns Err, a part of it or none.
WriteOutcomes == {"all", "part", "none"}

\* _panic_print through console(), whose lock the write has to take first.
_panic_print_via_console(args, written) ==
    /\ console_lock = "free"
    /\ write_attempts' = write_attempts + 1
    /\ panic_out' = IF written = "none" THEN panic_out
                    ELSE Append(panic_out, [args |-> args, text |-> panic_text(args),
                                            whole |-> written = "all"])
    /\ UNCHANGED console_lock

\* _panic_print: one write_fmt on panic_console_out(), which takes no lock.
_panic_print(args, written) ==
    /\ write_attempts' = write_attempts + 1
    /\ panic_out' = IF written = "none" THEN panic_out
                    ELSE Append(panic_out, [args |-> args, text |-> panic_text(args),
                                            whole |-> written = "all"])
    /\ UNCHANGED console_lock

----------------------------------------------------------------------------
\* Initial states

PanicInit(builds, overrides, masks) ==
    /\ test_build \in builds
    /\ panic_exit_overridden \in overrides
    /\ irq_masked \in masks
    /\ PANIC_IN_PROGRESS = FALSE
    /\ frames = <<>>
    /\ console_lock = "free"
    /\ panic_out = <<>>
    /\ cpu = "running"
    /\ uptime_reads = 0
    /\ write_attempts = 0

LookupInit ==
    /\ lookup_addr = None
    /\ lookup_result = None
    /\ lookup_reads = {}

\* A kernel that has left kernel_init behind.
BootDone ==
    /\ boot_pc = "done"
    /\ driver_index = 1
    /\ boot_log = <<>>

\* The table of the booted kernel: two functions one after the other, the
\* count word patched (2) or not (0).
Init ==
    /\ PanicInit(BOOLEAN, BOOLEAN, BOOLEAN)
    /\ LookupInit
    /\ BootDone
    /\ symbol_section = <<[start |-> 0, size |-> 2, name |-> SymbolName(1)],
                          [start |-> 2, size |-> 1, name |-> SymbolName(2)]>>
    /\ NUM_KERNEL_SYMBOLS \in {0, Len(symbol_section)}

\* Any section of up to MaxSyms records and any count within it, in a
\* production build that has unmasked the interrupts.
SymInit ==
    /\ PanicInit({FALSE}, {FALSE}, {FALSE})
    /\ LookupInit
    /\ BootDone
    /\ \E n \in 0..MaxSyms : symbol_section \in Tables(n)
    /\ NUM_KERNEL_SYMBOLS \in 0..Len(symbol_section)

----------------------------------------------------------------------------
\* Normal kernel code

\* lookup_symbol that leaves the count word at 0 behind it.
Lookup_clears_count(addr) ==
    /\ Running /\ ~InPanic
    /\ lookup_addr' = Some(addr)
    /\ lookup_result' = lookup_symbol(addr).result
    /\ lookup_reads' = lookup_symbol(addr).reads
    /\ NUM_KERNEL_SYMBOLS' = 0
    /\ UNCHANGED <<panic_vars, symbol_section, boot_vars>>

\* lookup_symbol(addr), called by code that is not panicking.
Lookup(addr) ==
    /\ Running /\ ~InPanic
    /\ lookup_addr' = Some(addr)
    /\ lookup_result' = lookup_symbol(addr).result
    /\ lookup_reads' = lookup_symbol(addr).reads
    /\ UNCHANGED <<panic_vars, symbol_vars, boot_vars>>

\* _print: console().write_fmt(args) takes the lock of the console (the
\* console is the arbitrated one, as its users describe it) ...
PrintBegin ==
    /\ Running /\ ~InPanic
    /\ console_lock = "free"
    /\ console_lock' = "held"
    /\ UNCHANGED <<test_build, panic_exit_overridden, irq_masked, PANIC_IN_PROGRESS,
                   frames, panic_out, cpu, uptime_reads, write_attempts,
                   symbol_vars, lookup_vars, boot_vars>>

\* ... and releases it with the write's Result, which _print unwraps.
PrintEnd ==
    /\ Running /\ ~InPanic
    /\ console_lock = "held"
    /\ console_lock' = "free"
    /\ \E ok \in BOOLEAN :
         frames' = IF ok THEN frames ELSE <<UnwrapPanic("print.rs", 18)>>
    /\ UNCHANGED <<test_build, panic_exit_overridden, irq_masked, PANIC_IN_PROGRESS,
                   panic_out, cpu, uptime_reads, write_attempts,
                   symbol_vars, lookup_vars, boot_vars>>

\* The kernel detects a fatal condition: panic(info) is entered, at any point
\* of normal code, the inside of a console write included.
RaisePanic ==
    /\ Running /\ ~InPanic
    /\ \E location \in Locations, message \in Messages :
         frames' = <<PanicFrame(location, message)>>
    /\ UNCHANGED <<test_build, panic_exit_overridden, irq_masked, PANIC_IN_PROGRESS,
                   console_lock, panic_out, cpu, uptime_reads, write_attempts,
                   symbol_vars, lookup_vars, boot_vars>>

\* An interrupt is delivered, which takes the interrupts being unmasked; the
\* core masks them as it enters the handler, and the handler panics. Normal
\* code can be interrupted, and so can an invocation of panic() that has not
\* yet masked.
IrqPanic ==
    /\ Running /\ ~irq_masked
    /\ irq_masked' = TRUE
    /\ frames' = Append(frames, IrqPanicFrame)
    /\ UNCHANGED <<test_build, panic_exit_overridden, PANIC_IN_PROGRESS,
                   console_lock, panic_out, cpu, uptime_reads, write_attempts,
                   symbol_vars, lookup_vars, boot_vars>>

----------------------------------------------------------------------------
\* The steps of panic(), taken by the innermost invocation

\* The first statement of panic() without effect on the mask.
PanicMask_leaves_unmasked ==
    /\ Running /\ InPanic /\ Top.pc = "mask"
    /\ frames' = SetTopPc("load")
    /\ UNCHANGED <<test_build, panic_exit_overridden, irq_masked, PANIC_IN_PROGRESS,
                   console_lock, panic_out, cpu, uptime_reads, write_attempts,
                   symbol_vars, lookup_vars, boot_vars>>

\* exception::asynchronous::local_irq_mask()
PanicMask ==
    /\ Running /\ InPanic /\ Top.pc = "mask"
    /\ irq_masked' = TRUE
    /\ frames' = SetTopPc("load")
    /\ UNCHANGED <<test_build, panic_exit_overridden, PANIC_IN_PROGRESS,
                   console_lock, panic_out, cpu, uptime_reads, write_attempts,
                   symbol_vars, lookup_vars, boot_vars>>

\* panic_prevent_reenter: PANIC_IN_PROGRESS.load(Relaxed) and the branch on it
PanicLoad ==
    /\ Running /\ InPanic /\ Top.pc = "load"
    /\ frames' = SetTopPc(panic_prevent_reenter(PANIC_IN_PROGRESS))
    /\ UNCHANGED <<test_build, panic_exit_overridden, irq_masked, PANIC_IN_PROGRESS,
                   console_lock, panic_out, cpu, uptime_reads, write_attempts,
                   symbol_vars, lookup_vars, boot_vars>>

\* The store of panic_prevent_reenter writing false instead of true.
PanicStore_false ==
    /\ Running /\ InPanic /\ Top.pc = "store"
    /\ PANIC_IN_PROGRESS' = FALSE
    /\ frames' = SetTopPc("uptime")
    /\ UNCHANGED <<test_build, panic_exit_overridden, irq_masked,
                   console_lock, panic_out, cpu, uptime_reads, write_attempts,
                   symbol_vars, lookup_vars, boot_vars>>

\* panic_prevent_reenter: PANIC_IN_PROGRESS.store(true, Relaxed); return
PanicStore ==
    /\ Running /\ InPanic /\ Top.pc = "store"
    /\ PANIC_IN_PROGRESS' = TRUE
    /\ frames' = SetTopPc("uptime")
    /\ UNCHANGED <<test_build, panic_exit_overridden, irq_masked,
                   console_lock, panic_out, cpu, uptime_reads, write_attempts,
                   symbol_vars, lookup_vars, boot_vars>>

\* The uptime read with the interrupts unmasked again after it.
PanicUptime_unmasks ==
    /\ Running /\ InPanic /\ Top.pc = "uptime"
    /\ uptime_reads' = uptime_reads + 1
    /\ irq_masked' = FALSE
    /\ \E t \in Uptimes :
         frames' = [frames EXCEPT ![Len(frames)].pc = "print",
                                  ![Len(frames)].timestamp = Some(t)]
    /\ UNCHANGED <<test_build, panic_exit_overridden, PANIC_IN_PROGRESS,
                   console_lock, panic_out, cpu, write_attempts,
                   symbol_vars, lookup_vars, boot_vars>>

\* let timestamp = time_manager().uptime()
PanicUptime ==
    /\ Running /\ InPanic /\ Top.pc = "uptime"
    /\ uptime_reads' = uptime_reads + 1
    /\ \E t \in Uptimes :
         frames' = [frames EXCEPT ![Len(frames)].pc = "print",
                                  ![Len(frames)].timestamp = Some(t)]
    /\ UNCHANGED <<test_build, panic_exit_overridden, irq_masked, PANIC_IN_PROGRESS,
                   console_lock, panic_out, cpu, write_attempts,
                   symbol_vars, lookup_vars, boot_vars>>

\* panic_println! with the Result of the write dropped instead of unwrapped.
PanicPrint_result_ignored ==
    /\ Running /\ InPanic /\ Top.pc = "print"
    /\ \E written \in WriteOutcomes : _panic_print(panic_args(Top), written)
    /\ frames' = SetTopPc("exit")
    /\ UNCHANGED <<test_build, panic_exit_overridden, irq_masked, PANIC_IN_PROGRESS,
                   cpu, uptime_reads, symbol_vars, lookup_vars, boot_vars>>

\* panic_println!(...): _panic_print and the unwrap() of its Result, which
\* panics in turn when the write failed.
PanicPrint ==
    /\ Running /\ InPanic /\ Top.pc = "print"
    /\ \E written \in WriteOutcomes :
         /\ _panic_print(panic_args(Top), written)
         /\ frames' = IF written = "all" THEN SetTopPc("exit")
                      ELSE Append(SetTopPc("unwrap"), UnwrapPanic("panic_wait.rs", 17))
    /\ UNCHANGED <<test_build, panic_exit_overridden, irq_masked, PANIC_IN_PROGRESS,
                   cpu, uptime_reads, symbol_vars, lookup_vars, boot_vars>>

\* The exit with the Reentrancy State put back to idle before it.
PanicExit_resets_flag ==
    /\ Running /\ InPanic /\ Top.pc \in {"exit", "reenter_exit"}
    /\ cpu' = linked_panic_exit
    /\ PANIC_IN_PROGRESS' = FALSE
    /\ frames' = SetTopPc("exited")
    /\ UNCHANGED <<test_build, panic_exit_overridden, irq_masked,
                   console_lock, panic_out, uptime_reads, write_attempts,
                   symbol_vars, lookup_vars, boot_vars>>

\* _panic_exit(), at the end of panic() or from panic_prevent_reenter
PanicExit ==
    /\ Running /\ InPanic /\ Top.pc \in {"exit", "reenter_exit"}
    /\ cpu' = linked_panic_exit
    /\ frames' = SetTopPc("exited")
    /\ UNCHANGED <<test_build, panic_exit_overridden, irq_masked, PANIC_IN_PROGRESS,
                   console_lock, panic_out, uptime_reads, write_attempts,
                   symbol_vars, lookup_vars, boot_vars>>

HandlerNext ==
    \/ PanicMask
    \/ PanicLoad
    \/ PanicStore
    \/ PanicUptime
    \/ PanicPrint
    \/ PanicExit

Next ==
    \/ \E addr \in Addresses : Lookup(addr)
    \/ PrintBegin
    \/ PrintEnd
    \/ RaisePanic
    \/ IrqPanic
    \/ HandlerNext

SymNext == \E addr \in Addresses : Lookup(addr)

\* A boot of the kernel.
Spec == Init /\ [][Next]_vars

\* The core keeps executing the handler once it is in it.
FairSpec == Spec /\ WF_vars(HandlerNext)

\* lookup_symbol on every table.
SymSpec == SymInit /\ [][SymNext]_vars

----------------------------------------------------------------------------
\* kernel_init of the exception-restore test

\* The driver table of the board, in its order.
device_drivers == <<"GPIO", "PL011_UART", "INTERRUPT_CONTROLLER">>

\* &self.device_drivers[0..=1]
early_print_device_drivers == SubSeq(device_drivers, 1, 2)

\* The statements of kernel_init that cannot fail and print nothing.
Calls ==
    {"handling_init", "post_enable_init", "qemu_bring_up_console",
     "post_early_print_device_driver_init", "nested_system_call"}

\* The statements that return a Result which kernel_init matches on.
Fallibles == {"kernel_map_binary", "enable_mmu_and_caching"}

\* The println! and info! statements: the three of the straight path and the
\* two of the Err arms.
Prints ==
    {"println_testing", "info_dummy_system_call", "info_back_from_system_call",
     "kernel_map_binary_err", "enable_mmu_and_caching_err"}

\* The statement that follows one that has returned.
after(pc) ==
    CASE pc = "handling_init" -> "println_testing"
      [] pc = "println_testing" -> "kernel_map_binary"
      [] pc = "kernel_map_binary" -> "enable_mmu_and_caching"
      [] pc = "kernel_map_binary_err" -> "qemu_exit_failure"
      [] pc = "enable_mmu_and_caching" -> "post_enable_init"
      [] pc = "enable_mmu_and_caching_err" -> "qemu_exit_failure"
      [] pc = "post_enable_init" -> "qemu_bring_up_console"
      [] pc = "qemu_bring_up_console" -> "early_print_device_drivers"
      [] pc = "early_print_device_drivers" -> "post_early_print_device_driver_init"
      [] pc = "post_early_print_device_driver_init" -> "info_dummy_system_call"
      [] pc = "info_dummy_system_call" -> "nested_system_call"
      [] pc = "nested_system_call" -> "info_back_from_system_call"
      [] pc = "info_back_from_system_call" -> "wait_forever"

Booting == Running /\ ~InPanic /\ boot_pc # "done"

Logged(op, arg) == Append(boot_log, [op |-> op, arg |-> arg])

\* The test kernel entering kernel_init: a test build that links
\* panic_wait_forever, the interrupts masked as the boot code leaves them.
KernelInitInit ==
    /\ PanicInit({TRUE}, {TRUE}, {TRUE})
    /\ LookupInit
    /\ symbol_section = <<>>
    /\ NUM_KERNEL_SYMBOLS = 0
    /\ boot_pc = "handling_init"
    /\ driver_index = 1
    /\ boot_log = <<>>

\* A call kernel_init makes for its effect only.
KernelInitCall ==
    /\ Booting /\ boot_pc \in Calls
    /\ boot_log' = Logged("call", boot_pc)
    /\ boot_pc' = after(boot_pc)
    /\ UNCHANGED <<panic_vars, symbol_vars, lookup_vars, driver_index>>

\* println! or info!: the text goes out, or the unwrap in _print panics.
KernelInitPrint ==
    /\ Booting /\ boot_pc \in Prints
    /\ \/ /\ boot_log' = Logged("print", boot_pc)
          /\ boot_pc' = after(boot_pc)
          /\ UNCHANGED frames
       \/ /\ frames' = Append(frames, UnwrapPanic("print.rs", 18))
          /\ UNCHANGED <<boot_pc, boot_log>>
    /\ UNCHANGED <<test_build, panic_exit_overridden, irq_masked, PANIC_IN_PROGRESS,
                   console_lock, panic_out, cpu, uptime_reads, write_attempts,
                   symbol_vars, lookup_vars, driver_index>>

\* kernel_map_binary() and enable_mmu_and_caching(): Ok goes on, Err goes to
\* the arm that prints and exits.
KernelInitFallible ==
    /\ Booting /\ boot_pc \in Fallibles
    /\ \/ /\ boot_log' = Logged("ok", boot_pc)
          /\ boot_pc' = after(boot_pc)
       \/ /\ boot_log' = Logged("err", boot_pc)
          /\ boot_pc' = IF boot_pc = "kernel_map_binary"
                           THEN "kernel_map_binary_err"
                           ELSE "enable_mmu_and_caching_err"
    /\ UNCHANGED <<panic_vars, symbol_vars, lookup_vars, driver_index>>

\* One turn of the loop with a failed init carrying on with the next driver.
KernelInitDriverInit_failure_ignored ==
    /\ Booting /\ boot_pc = "early_print_device_drivers"
    /\ driver_index <= Len(early_print_device_drivers)
    /\ \E ok \in BOOLEAN :
         boot_log' = Logged(IF ok THEN "init_ok" ELSE "init_err",
                            early_print_device_drivers[driver_index])
    /\ driver_index' = driver_index + 1
    /\ UNCHANGED <<panic_vars, symbol_vars, lookup_vars, boot_pc>>

\* One turn of the loop: i.init().unwrap_or_else(|_| cpu::qemu_exit_failure())
KernelInitDriverInit ==
    /\ Booting /\ boot_pc = "early_print_device_drivers"
    /\ driver_index <= Len(early_print_device_drivers)
    /\ \/ /\ boot_log' = Logged("init_ok", early_print_device_drivers[driver_index])
          /\ driver_index' = driver_index + 1
          /\ UNCHANGED <<boot_pc, cpu>>
       \/ /\ boot_log' = Logged("init_err", early_print_device_drivers[driver_index])
          /\ cpu' = "qemu_exit_failure"
          /\ boot_pc' = "exited"
          /\ UNCHANGED driver_index
    /\ UNCHANGED <<test_build, panic_exit_overridden, irq_masked, PANIC_IN_PROGRESS,
                   frames, console_lock, panic_out, uptime_reads, write_attempts,
                   symbol_vars, lookup_vars>>

\* The iterator is exhausted.
KernelInitLoopEnd ==
    /\ Booting /\ boot_pc = "early_print_device_drivers"
    /\ driver_index > Len(early_print_device_drivers)
    /\ boot_pc' = after(boot_pc)
    /\ UNCHANGED <<panic_vars, symbol_vars, lookup_vars, driver_index, boot_log>>

\* cpu::qemu_exit_failure() at the end of an Err arm
KernelInitExitFailure ==
    /\ Booting /\ boot_pc = "qemu_exit_failure"
    /\ cpu' = "qemu_exit_failure"
    /\ boot_pc' = "exited"
    /\ UNCHANGED <<test_build, panic_exit_overridden, irq_masked, PANIC_IN_PROGRESS,
                   frames, console_lock, panic_out, uptime_reads, write_attempts,
                   symbol_vars, lookup_vars, driver_index, boot_log>>

\* cpu::wait_forever(), the last statement
KernelInitWaitForever ==
    /\ Booting /\ boot_pc = "wait_forever"
    /\ cpu' = "wait_forever"
    /\ boot_pc' = "exited"
    /\ UNCHANGED <<test_build, panic_exit_overridden, irq_masked, PANIC_IN_PROGRESS,
                   frames, console_lock, panic_out, uptime_reads, write_attempts,
                   symbol_vars, lookup_vars, driver_index, boot_log>>

KernelInitNext ==
    \/ KernelInitCall
    \/ KernelInitPrint
    \/ KernelInitFallible
    \/ KernelInitDriverInit
    \/ KernelInitLoopEnd
    \/ KernelInitExitFailure
    \/ KernelInitWaitForever
    \/ HandlerNext

\* A run of the exception-restore test.
KernelInitSpec == KernelInitInit /\ [][KernelInitNext]_vars

----------------------------------------------------------------------------
\* Properties of the panic handler

\* The exit strategy has been invoked for a panic.
PanicExited == InPanic /\ ~Running

\* The diagnostics that arrived whole on the panic output channel.
Diagnostics == SelectSeq(panic_out, LAMBDA r : r.whole)

\* A write on the panic output channel has returned Err.
WriteFailed == write_attempts > Len(Diagnostics)

\* An invocation that found the Reentrancy State "panicking" when it began.
Reentered == InPanic /\ PANIC_IN_PROGRESS /\ Top.pc \in {"mask", "load", "reenter_exit"}

\* The handler leaves what it has read and written as it is.
NoDiagnosticStep ==
    /\ uptime_reads' = uptime_reads
    /\ write_attempts' = write_attempts
    /\ panic_out' = panic_out

\* C1 as stated: once a panic has reached the exit strategy, exactly one
\* diagnostic record has been written to the panic output channel.
C1_ExactlyOneDiagnostic == PanicExited => Len(Diagnostics) = 1

\* C1 as amended: in every boot at most one record, whole or cut short, is on
\* the panic output channel and at most one write is tried; when a panic has
\* reached the exit strategy exactly one write was tried, and one whole
\* diagnostic was written exactly when that write did not fail (no invocation
\* is left at the unwrap of a failed write).
C1_AtMostOneDiagnostic ==
    /\ Len(panic_out) <= 1
    /\ write_attempts <= 1
    /\ PanicExited => /\ write_attempts = 1
                      /\ Len(Diagnostics) = 1 <=>
                            \A i \in 1..Len(frames) : frames[i].pc # "unwrap"

\* C1 witness: a further panic was raised after the first, both are at their
\* end, and the channel holds a record that was cut short.
C1_Witness ==
    /\ PanicExited /\ Len(frames) = 2
    /\ Len(panic_out) = 1 /\ Diagnostics = <<>>

\* C2: an invocation that begins while the Reentrancy State is "panicking"
\* goes from the mask to the test of the flag and from there to the exit
\* strategy, and on the way reads no uptime, writes nothing and raises no
\* further panic.
C2_ReentrantGoesToExit ==
    [][Reentered =>
         /\ NoDiagnosticStep
         /\ Len(frames') = Len(frames)
         /\ Top'.pc = CASE Top.pc = "mask" -> "load"
                        [] Top.pc = "load" -> "reenter_exit"
                        [] Top.pc = "reenter_exit" -> "exited"
         /\ Top.pc = "reenter_exit" => cpu' # "running"]_vars

\* C2 witness: a nested invocation has reached the exit strategy.
C2_Witness ==
    /\ Len(frames) = 2 /\ Top.pc = "exited" /\ frames[1].pc = "unwrap"
    /\ uptime_reads = 1 /\ write_attempts = 1

\* C5: with the weak default linked, a panic of a test build ends in
\* qemu_exit_failure and never in wait_forever, and a panic of a production
\* build ends in wait_forever and never in qemu_exit_failure.
C5_DefaultExitByBuild ==
    (InPanic /\ ~panic_exit_overridden) =>
        /\ test_build => cpu \in {"running", "qemu_exit_failure"}
        /\ ~test_build => cpu \in {"running", "wait_forever"}
        /\ Top.pc = "exited" => cpu # "running"

\* C5 witness: a panic of a test build has signalled failure to the host.
C5_Witness ==
    /\ PanicExited /\ ~panic_exit_overridden /\ test_build
    /\ cpu = "qemu_exit_failure"

C4_PanicReachesExit ==
    /\ InPanic ~> PanicExited
    /\ [][InPanic =>
            /\ Len(frames') >= Len(frames)
            /\ \A i \in 1..Len(frames) :
                 /\ frames'[i].location = frames[i].location
                 /\ frames'[i].message = frames[i].message
            /\ console_lock' = console_lock
            /\ lookup_addr' = lookup_addr]_vars
    /\ [](PanicExited => Top.pc = "exited")

\* C4 witness: a first invocation has reached the exit strategy by itself.
C4_Witness == PanicExited /\ Len(frames) = 1 /\ Top.pc = "exited"

\* C10: a panic raised while the lock of the normal console is held tries its
\* write and reaches the exit strategy, and no step of the handler touches
\* that lock.
C10_NoDeadlockOnConsoleLock ==
    /\ (InPanic /\ console_lock = "held") ~> (PanicExited /\ write_attempts = 1)
    /\ [][InPanic => console_lock' = console_lock]_vars

\* C10 witness: the diagnostic was written and the exit strategy reached with
\* the lock of the normal console still held.
C10_Witness ==
    /\ PanicExited /\ console_lock = "held"
    /\ Len(Diagnostics) = 1

----------------------------------------------------------------------------
\* Properties of lookup_symbol

\* A lookup has returned; Looked is its address.
LookupDone == lookup_addr # None
Looked == lookup_addr[1]

\* The records of the table (the first NUM_KERNEL_SYMBOLS of the section).
TableIndices == 1..NUM_KERNEL_SYMBOLS

\* The records whose range start <= a < start + size holds address a.
Matching(a) ==
    {i \in TableIndices :
        symbol_section[i].start <= a /\ a < symbol_section[i].start + symbol_section[i].size}

\* No address lies in the ranges of two records of the table.
NonOverlapping == \A a \in Addresses : Cardinality(Matching(a)) <= 1

Minimum(S) == CHOOSE m \in S : \A n \in S : m <= n

\* C6: on a table without overlapping ranges, lookup_symbol(a) returns the
\* name of the one record whose range holds a, and None when no range does.
C6_LookupReturnsContainingRecord ==
    (LookupDone /\ NonOverlapping) =>
        IF Matching(Looked) = {}
        THEN lookup_result = None
        ELSE \E i \in Matching(Looked) : lookup_result = Some(symbol_section[i].name)

\* C6 witness: on a table of two records that do not overlap, the lookup of an
\* address inside the second has returned its name.
C6_Witness ==
    /\ LookupDone /\ NonOverlapping /\ NUM_KERNEL_SYMBOLS = 2
    /\ Matching(Looked) = {2}
    /\ symbol_section[1].size > 0
    /\ Looked > symbol_section[2].start
    /\ lookup_result = Some(SymbolName(2))

\* The boundary law for the records of at least minsize addresses: the lookup
\* of a record's start returns its name, and the lookup of its end returns
\* None unless another record begins there.
BoundaryLaw(minsize) ==
    (LookupDone /\ NonOverlapping) =>
        \A i \in TableIndices :
            LET S == symbol_section[i].start
                N == symbol_section[i].size
            IN  N >= minsize =>
                  /\ Looked = S => lookup_result = Some(symbol_section[i].name)
                  /\ (/\ Looked = S + N
                      /\ \A j \in TableIndices \ {i} : symbol_section[j].start # S + N)
                     => lookup_result = None

\* C7 as stated: the boundary law for every record of a well-formed table,
\* those of size 0 included.
C7_BoundaryLawAnySize == BoundaryLaw(0)

\* C7 as amended: the boundary law for the records of size N >= 1 of a table
\* without overlapping ranges.
C7_BoundaryLawNonEmpty == BoundaryLaw(1)

\* C7 witness: the end of the first record was looked up, no record begins
\* there, and the second record lies further up.
C7_Witness ==
    /\ LookupDone /\ NonOverlapping /\ NUM_KERNEL_SYMBOLS = 2
    /\ symbol_section[1].size >= 1 /\ symbol_section[2].size >= 1
    /\ Looked = symbol_section[1].start + symbol_section[1].size
    /\ symbol_section[2].start > Looked
    /\ lookup_result = None

\* C8: with the count word at 0, lookup_symbol returns None for every address
\* and reads no record of the section.
C8_ZeroCountFindsNothing ==
    (LookupDone /\ NUM_KERNEL_SYMBOLS = 0) =>
        /\ lookup_result = None
        /\ lookup_reads = {}

\* C8 witness: address 0 was looked up with the count word at 0 while the
\* section holds a record whose range holds address 0.
C8_Witness ==
    /\ LookupDone /\ Looked = 0 /\ NUM_KERNEL_SYMBOLS = 0
    /\ Len(symbol_section) >= 1
    /\ symbol_section[1].start = 0 /\ symbol_section[1].size >= 1
    /\ lookup_result = None

\* The records of the table that contain address a.
Containing(a) == {i \in TableIndices : contains(symbol_section[i], a)}

\* C9: when the ranges of several records hold the address, lookup_symbol
\* returns the name of the one with the lowest index.
C9_FirstMatchWins ==
    (LookupDone /\ Containing(Looked) # {}) =>
        lookup_result = Some(symbol_section[Minimum(Containing(Looked))].name)

\* C9 witness: two records hold the address and the first one was returned.
C9_Witness ==
    /\ LookupDone /\ Cardinality(Containing(Looked)) >= 2
    /\ lookup_result = Some(SymbolName(1))

----------------------------------------------------------------------------
\* Properties of the diagnostic text

\* Text t holds text p as a run of consecutive characters.
Holds(t, p) == \E k \in 0..(Len(t) - Len(p)) : SubSeq(t, k + 1, k + Len(p)) = p
StartsWith(t, p) == Len(t) >= Len(p) /\ SubSeq(t, 1, Len(p)) = p
EndsWith(t, p) == Len(t) >= Len(p) /\ SubSeq(t, Len(t) - Len(p) + 1, Len(t)) = p

\* Invocation i has made its write on the panic output channel.
Printed(i) ==
    \/ frames[i].pc \in {"exit", "unwrap"}
    \/ frames[i].pc = "exited" /\ frames[i].timestamp # None

\* The invocations that wrote a whole diagnostic.
Writers == {i \in 1..Len(frames) : Printed(i) /\ Diagnostics # <<>>}

\* The panic of the scenario: foo.rs, line 42, column 7, "index out of
\* bounds", at an uptime of 3.250000 s.
Scenario(f) ==
    /\ f.location = Some([file |-> "foo.rs", line |-> 42, column |-> 7])
    /\ f.message = Some("index out of bounds")
    /\ f.timestamp = Some([secs |-> 3, nanos |-> 250000000])

LocationLine ==
    <<"F", "i", "l", "e", " ", "'", "f", "o", "o", ".", "r", "s", "'", ",",
      " ", "l", "i", "n", "e", " ", "4", "2", ",", " ", "c", "o", "l", "u",
      "m", "n", " ", "7">>
MessageLine ==
    <<"i", "n", "d", "e", "x", " ", "o", "u", "t", " ", "o", "f", " ", "b",
      "o", "u", "n", "d", "s">>
StampTwoSpaces ==
    <<"[", " ", " ", "3", ".", "2", "5", "0", "0", "0", "0", "]">>
StampFourSpaces ==
    <<"[", " ", " ", " ", " ", "3", ".", "2", "5", "0", "0", "0", "0", "]">>
UnknownLocationLine ==
    <<"F", "i", "l", "e", " ", "'", "?", "?", "?", "'", ",", " ", "l", "i",
      "n", "e", " ", "0", ",", " ", "c", "o", "l", "u", "m", "n", " ", "0",
      "\n", "\n">>

\* C11 as stated: the diagnostic of the scenario holds the location line, the
\* message and the timestamp prefix "[  3.250000]" (bracket, two spaces,
\* seconds).
C11_TextWithTwoSpaces ==
    \A i \in Writers : Scenario(frames[i]) =>
        /\ Holds(Diagnostics[1].text, LocationLine)
        /\ Holds(Diagnostics[1].text, MessageLine)
        /\ Holds(Diagnostics[1].text, StampTwoSpaces)

\* C11 as amended: the diagnostic of the scenario holds the location line and
\* the message, and begins with "[    3.250000]": the bracket, two spaces,
\* the seconds right-aligned in three columns, the dot, six digits of
\* microseconds, the closing bracket.
C11_TextWithPaddedSeconds ==
    \A i \in Writers : Scenario(frames[i]) =>
        /\ Holds(Diagnostics[1].text, LocationLine)
        /\ Holds(Diagnostics[1].text, MessageLine)
        /\ StartsWith(Diagnostics[1].text, StampFourSpaces)

\* C11 witness: the diagnostic of the scenario is on the channel, whole.
C11_Witness ==
    /\ Writers # {} /\ Len(frames) = 1 /\ Scenario(frames[1])
    /\ Diagnostics[1].args.micros = 250000

\* C12: a panic without location or without message still writes its
\* diagnostic, with "???", 0 and 0 for the location and nothing for the
\* message; taking these raises no further panic (only a failed write does),
\* and the exit strategy is reached.
C12_MissingInfoStillPrints ==
    /\ [](\A i \in Writers :
            /\ frames[i].location = None =>
                 /\ Diagnostics[1].args.file = "???"
                 /\ Diagnostics[1].args.line = 0 /\ Diagnostics[1].args.column = 0
                 /\ Holds(Diagnostics[1].text, UnknownLocationLine)
            /\ frames[i].message = None =>
                 /\ Diagnostics[1].args.message = ""
                 /\ EndsWith(Diagnostics[1].text, <<"\n", "\n", "\n">>))
    /\ [][(/\ InPanic /\ Top.pc \in {"uptime", "print"}
            /\ (Top.location = None \/ Top.message = None)) =>
            \/ Len(frames') = Len(frames)
            \/ Top.pc = "print" /\ write_attempts' = write_attempts + 1
                                /\ Len(Diagnostics') = Len(Diagnostics)]_vars
    /\ (InPanic /\ (frames[1].location = None \/ frames[1].message = None))
         ~> PanicExited

\* C12 witness: a panic with neither location nor message has written its
\* whole diagnostic and reached the exit strategy.
C12_Witness ==
    /\ PanicExited /\ Len(frames) = 1 /\ Writers = {1}
    /\ frames[1].location = None /\ frames[1].message = None

----------------------------------------------------------------------------
\* Properties of the handler's state

\* C13: lookup_symbol has no side effects: no step changes the section or the
\* count word, a step that changes what the last lookup returned changes
\* nothing of the panic handler's state (the Reentrancy State included), and
\* whatever has happened since, repeating the last lookup returns what it
\* returned.
C13_LookupHasNoSideEffects ==
    /\ [][symbol_vars' = symbol_vars]_vars
    /\ [][lookup_vars' # lookup_vars => panic_vars' = panic_vars]_vars
    /\ [](LookupDone => /\ lookup_result = lookup_symbol(Looked).result
                        /\ lookup_reads = lookup_symbol(Looked).reads)

\* C13 witness: a lookup found the second function, and a panic has run to
\* its end since.
C13_Witness ==
    /\ LookupDone /\ lookup_result = Some(SymbolName(2))
    /\ PANIC_IN_PROGRESS /\ PanicExited

\* Invocation i has read the Reentrancy State as "idle".
ObservedIdle(i) ==
    \/ frames[i].pc \in {"store", "uptime", "print", "unwrap", "exit"}
    \/ frames[i].pc = "exited" /\ frames[i].timestamp # None

\* C14: however panic invocations interleave, at most one of them reads the
\* Reentrancy State as "idle", and only that one goes on to print; one that
\* is about to set the flag finds it still "idle".
C14_OneInvocationObservesIdle ==
    /\ Cardinality({i \in 1..Len(frames) : ObservedIdle(i)}) <= 1
    /\ \A i \in 1..Len(frames) : frames[i].pc = "store" => ~PANIC_IN_PROGRESS
    /\ \A i \in 1..Len(frames) : Printed(i) => ObservedIdle(i)

\* C14 witness: an invocation was interrupted before it had masked, and the
\* invocation of the interrupt handler is the one that read "idle".
C14_Witness ==
    /\ Len(frames) = 2 /\ frames[1].pc = "mask"
    /\ ObservedIdle(2) /\ PANIC_IN_PROGRESS

\* C15: in every invocation the mask comes first: an invocation past its
\* first step runs masked, the first step does nothing but mask, and the flag
\* is read and written, the uptime read and the channel written only masked.
C15_MaskComesFirst ==
    /\ [](\A i \in 1..Len(frames) : frames[i].pc # "mask" => irq_masked)
    /\ [][(InPanic /\ Top.pc = "mask" /\ Len(frames') = Len(frames)) =>
            /\ irq_masked' /\ Top'.pc = "load"
            /\ PANIC_IN_PROGRESS' = PANIC_IN_PROGRESS
            /\ NoDiagnosticStep]_vars
    /\ [][(\/ InPanic /\ Top.pc = "load" /\ frames' # frames
           \/ PANIC_IN_PROGRESS' # PANIC_IN_PROGRESS
           \/ uptime_reads' # uptime_reads
           \/ write_attempts' # write_attempts
           \/ panic_out' # panic_out) => irq_masked]_vars

\* C15 witness: a panic raised with the interrupts unmasked has masked them
\* and is about to read the flag.
C15_Witness ==
    /\ Len(frames) = 1 /\ Top.pc = "load" /\ Top # IrqPanicFrame
    /\ irq_masked /\ ~PANIC_IN_PROGRESS /\ uptime_reads = 0 /\ write_attempts = 0

\* C16: the Reentrancy State is idle until a panic, is written only by an
\* invocation that found it idle (so once per boot), holds "panicking" once
\* an invocation has passed the check, and never goes back to idle.
C16_ReentrancyStateOneWay ==
    /\ [](~InPanic => ~PANIC_IN_PROGRESS)
    /\ [][PANIC_IN_PROGRESS => PANIC_IN_PROGRESS']_vars
    /\ [][PANIC_IN_PROGRESS' # PANIC_IN_PROGRESS =>
            /\ InPanic /\ Top.pc = "store" /\ Top'.pc = "uptime"
            /\ \A i \in 1..(Len(frames) - 1) : ~ObservedIdle(i)]_vars
    /\ [](\A i \in 1..Len(frames) :
            frames[i].pc \in {"uptime", "print", "unwrap", "exit", "reenter_exit", "exited"}
                => PANIC_IN_PROGRESS)

\* C16 witness: a later invocation has gone to the exit strategy past the
\* flag that the invocation before it had set.
C16_Witness ==
    /\ PANIC_IN_PROGRESS /\ Len(frames) >= 2
    /\ ObservedIdle(Len(frames) - 1) /\ Top.pc = "exited" /\ Top.timestamp = None

C18_StaysMasked ==
    /\ [][(InPanic /\ irq_masked) => irq_masked']_vars
    /\ [](\A i \in 1..Len(frames) : frames[i].pc # "mask" => irq_masked)
    /\ [](\A i \in 2..Len(frames) :
            frames[i].message = IrqPanicFrame.message => frames[i - 1].pc = "mask")

\* C18 witness: a panic raised with the interrupts unmasked has printed and
\* reached the exit strategy, masked.
C18_Witness ==
    /\ PanicExited /\ irq_masked /\ Len(frames) = 1
    /\ Top # IrqPanicFrame /\ Len(Diagnostics) = 1 /\ Top.message = None

----------------------------------------------------------------------------
\* Properties of the test's kernel_init

\* The positions of the boot log that hold the event (op, arg).
At(op, arg) == {i \in 1..Len(boot_log) : boot_log[i] = [op |-> op, arg |-> arg]}

\* Every event (op1, arg1) of the log has an event (op2, arg2) before it.
Before(op2, arg2, op1, arg1) ==
    \A i \in At(op1, arg1) : \E j \in At(op2, arg2) : j < i

\* The drivers whose init was called, in the order of the calls.
InitCalls == SelectSeq(boot_log, LAMBDA e : e.op \in {"init_ok", "init_err"})

====
